---------------------------- MODULE Spec2Model ----------------------------
(***************************************************************************)
(* Input abstraction of the pygame sandbox: Control, Controller,           *)
(* PygameKeyboardController, PygameGamepadController and Mover             *)
(* (src/src/controller.py), the Point/Character position entity            *)
(* (src/sandbox/model.py) and the program start-up (src/src/main.py).      *)
(*                                                                         *)
(* Numbers.  Python floats are modelled as integers counted in hundredths: *)
(* the analog reading 0.6 is 60, the dead zone 0.05 is 5, the digital      *)
(* magnitude 1 is 100 and the start coordinate 300 is 30000.               *)
(***************************************************************************)
EXTENDS Integers, FiniteSets, Sequences, TLC

\* Hundredths in one whole unit: the resolution in which 0.05 is an integer.
UnitsPerOne == 100

\* Bounds of the model: move_character calls outside the host loop, ticks
\* of the host loop, and direct calls of a Control's own methods.
MaxMoves == 1
MaxTicks == 2
MaxDirect == 1

\* Ticks of the controller-switching harness: one more than its controllers,
\* so that the round-robin wraps.
MaxSwitchTicks == 5

\* ------------------------------------------------------------------------
\* Program constants
\* ------------------------------------------------------------------------

\* Key codes bound by the settings (pygame.K_RIGHT, K_LEFT, K_UP, K_DOWN).
K_RIGHT == 1073741903
K_LEFT == 1073741904
K_DOWN == 1073741905
K_UP == 1073741906

KeyCodes == {K_RIGHT, K_LEFT, K_DOWN, K_UP}

\* GamePadAxe.LEFT_STICK_X / LEFT_STICK_Y
LEFT_STICK_X == 0
LEFT_STICK_Y == 1

\* self._dead_zone = 0.05, in hundredths
dead_zone == 5

\* character = model.Character(model.Point(300, 300)), in whole units
StartX == 300
StartY == 300

\* The four directional Controls a Controller owns.
Dir == {"move_up", "move_right", "move_down", "move_left"}

Abs(v) == IF v < 0 THEN -v ELSE v

\* ------------------------------------------------------------------------
\* Inputs
\* ------------------------------------------------------------------------

\* pygame.key.get_pressed(): the pressed flag of every key code.
KeyTables == [KeyCodes -> BOOLEAN]

NoKeys == [k \in KeyCodes |-> FALSE]

\* Joystick.get_axis(): readings in [-1.0, 1.0]; the model samples the
\* centre, a reading strictly inside the dead zone, the dead-zone boundary
\* itself and a reading beyond the dead zone on either side.
AxisReadings == {-60, -dead_zone, 0, 3, 60}

\* Magnitudes handed to Control.activate by a direct caller
\* (an analog 2.0 and a negative analog reading).
ActivateValues == {2 * UnitsPerOne, -60}

\* pygame.joystick.get_count()
JoystickCounts == {0, 1, 2}

VARIABLES
    kind,             \* which Controller has been constructed
    controls,         \* Dir -> Control of that controller
    location,         \* character.location: the Point (x, y)
    error,            \* the exception that ended the program, if any
    last_op,          \* the last operation performed
    read,             \* host loop: the device state this tick's survey read
    pc,               \* position in the host loop ("free": no loop)
    moves,            \* number of move_character calls so far
    direct,           \* number of direct Control calls so far
    held,             \* the raw device state, while it is held fixed
    prev_op,          \* the operation before last_op, where it is tracked
    heap,             \* every Point object created so far
    ref,              \* character._location: the index of its Point in heap
    rect,             \* the legacy Character.rect (x, y)
    frames,           \* number of frames so far (legacy show loop, test harness)
    h_controls,       \* test harness: the Controls of every listed controller
    h_index           \* test harness: self._controller_index

\* The state of Control, Controller, Mover and the character.
core == <<kind, controls, location, error, last_op, read, pc, moves, direct>>

\* The state only the scenarios further below use.
extra == <<held, prev_op, heap, ref, rect, frames, h_controls, h_index>>

\* core without last_op and pc, which every step of a scenario writes.
core_but_op == <<kind, controls, location, error, read, moves, direct>>

vars == <<core, extra>>

\* ------------------------------------------------------------------------
\* Control
\* ------------------------------------------------------------------------

Control(key_number) ==
    [key_number |-> key_number, activated |-> FALSE, value |-> 0]

update_key_number(c, key_number) == [c EXCEPT !.key_number = key_number]

activate(c, value) == [c EXCEPT !.activated = TRUE, !.value = value]

\* Fault variant: deactivate clears the flag but keeps the value.
deactivate_keeps_value(c) == [c EXCEPT !.activated = FALSE]

\* Fault variant: deactivate re-initialises the Control, binding included.
deactivate_forgets_key(c) == Control(0)

deactivate(c) == [c EXCEPT !.activated = FALSE, !.value = 0]

\* ------------------------------------------------------------------------
\* Controller
\* ------------------------------------------------------------------------

\* Controller.__init__: four Control(0); also the placeholder before a
\* concrete controller exists.
ControllerInit == [d \in Dir |-> Control(0)]

\* Fault variant: move_down is left out of the reset.
deactivate_all_skips_down(cs) ==
    [d \in Dir |-> IF d = "move_down" THEN cs[d] ELSE deactivate(cs[d])]

deactivate_all_controls(cs) == [d \in Dir |-> deactivate(cs[d])]

\* PygameKeyboardController.__init__
KeyboardInit ==
    [d \in Dir |->
        Control(CASE d = "move_right" -> K_RIGHT
                  [] d = "move_up" -> K_UP
                  [] d = "move_left" -> K_LEFT
                  [] d = "move_down" -> K_DOWN)]

\* Fault variant: every survey that sees the key pressed adds to the value.
KeyboardSurveyOne_accumulates(c, keys) ==
    IF keys[c.key_number] THEN activate(c, c.value + 1 * UnitsPerOne) ELSE c

\* PygameKeyboardController.conduct_survey_of_controls: four independent
\* "if keys[key_number]: activate()"; there is no else branch.
KeyboardSurveyOne(c, keys) ==
    IF keys[c.key_number] THEN activate(c, 1 * UnitsPerOne) ELSE c

Keyboard_conduct_survey_of_controls(cs, keys) ==
    [d \in Dir |-> KeyboardSurveyOne(cs[d], keys)]

\* PygameGamepadController.__init__ (the joystick exists)
GamepadInit ==
    [d \in Dir |->
        Control(IF d \in {"move_up", "move_down"}
                THEN LEFT_STICK_Y ELSE LEFT_STICK_X)]

\* abs(value) > self._dead_zone, after the walrus test "if value := ..."
\* has let a non-zero reading through.
BeyondDeadZone(value) == value # 0 /\ Abs(value) > dead_zone

\* Fault variant: the horizontal directions swapped.
GamepadSurveyX_swapped(cs, value) ==
    IF BeyondDeadZone(value)
    THEN IF value > 0
         THEN [cs EXCEPT !["move_left"] = activate(@, value)]
         ELSE [cs EXCEPT !["move_right"] = activate(@, value)]
    ELSE cs

\* The horizontal half of PygameGamepadController.conduct_survey_of_controls
GamepadSurveyX(cs, value) ==
    IF BeyondDeadZone(value)
    THEN IF value > 0
         THEN [cs EXCEPT !["move_right"] = activate(@, value)]
         ELSE [cs EXCEPT !["move_left"] = activate(@, value)]
    ELSE cs

\* The vertical half
GamepadSurveyY(cs, value) ==
    IF BeyondDeadZone(value)
    THEN IF value < 0
         THEN [cs EXCEPT !["move_up"] = activate(@, value)]
         ELSE [cs EXCEPT !["move_down"] = activate(@, value)]
    ELSE cs

Gamepad_conduct_survey_of_controls(cs, ax, ay) ==
    GamepadSurveyY(GamepadSurveyX(cs, ax), ay)

\* ------------------------------------------------------------------------
\* Mover
\* ------------------------------------------------------------------------

\* Fault variant: left is tested before right.
get_new_x_left_first(cs, start_x, speed) ==
    IF cs["move_left"].activated
    THEN start_x - Abs(cs["move_left"].value) - speed
    ELSE IF cs["move_right"].activated
         THEN start_x + cs["move_right"].value + speed
         ELSE start_x

\* Fault variant: the left value is subtracted without abs().
get_new_x_no_abs(cs, start_x, speed) ==
    IF cs["move_right"].activated
    THEN start_x + cs["move_right"].value + speed
    ELSE IF cs["move_left"].activated
         THEN start_x - cs["move_left"].value - speed
         ELSE start_x

get_new_x(cs, start_x, speed) ==
    IF cs["move_right"].activated
    THEN start_x + cs["move_right"].value + speed
    ELSE IF cs["move_left"].activated
         THEN start_x - Abs(cs["move_left"].value) - speed
         ELSE start_x

\* Fault variant: with neither up nor down activated the character sinks.
get_new_y_sinks(cs, start_y, speed) ==
    IF cs["move_up"].activated
    THEN start_y - Abs(cs["move_up"].value) - speed
    ELSE IF cs["move_down"].activated
         THEN start_y + cs["move_down"].value + speed
         ELSE start_y + 1

get_new_y(cs, start_y, speed) ==
    IF cs["move_up"].activated
    THEN start_y - Abs(cs["move_up"].value) - speed
    ELSE IF cs["move_down"].activated
         THEN start_y + cs["move_down"].value + speed
         ELSE start_y

\* speed = 0 in Mover.move_character
MoverSpeed == 0

\* model.Point(x=..., y=...)
Point(x, y) == [x |-> x, y |-> y]

move_character(cs, loc) ==
    Point(get_new_x(cs, loc.x, MoverSpeed), get_new_y(cs, loc.y, MoverSpeed))

\* ------------------------------------------------------------------------
\* State machine
\* ------------------------------------------------------------------------

\* What a survey reads from the host: the key table and the two axis
\* readings of the left stick.  Kept per tick of the host loop only.
Read(keys, ax, ay) == [keys |-> keys, ax |-> ax, ay |-> ay]

NoRead == Read(NoKeys, 0, 0)

\* character = model.Character(model.Point(300, 300))
StartPoint == Point(StartX * UnitsPerOne, StartY * UnitsPerOne)

\* The legacy Character of src/main.py: a 100 x 100 surface whose rect is
\* centred on (300, 300); rect.x and rect.y are its top-left corner, in
\* whole pixels.
LegacySize == 100
LegacyCenter == 300

RectStart == Point(LegacyCenter - LegacySize \div 2, LegacyCenter - LegacySize \div 2)

\* The test harness lists four controllers, each with the four directions
\* and the accept and quit Controls.
NControllers == 4

HControls == Dir \cup {"accept", "quit"}

HarnessInit == [i \in 0..(NControllers - 1) |-> [c \in HControls |-> Control(0)]]

\* The scenario variables before any scenario has touched them.
ExtraInit ==
    /\ held = NoRead
    /\ prev_op = "start"
    /\ heap = <<StartPoint>>
    /\ ref = 1
    /\ rect = RectStart
    /\ frames = 0
    /\ h_controls = HarnessInit
    /\ h_index = 0

\* src/src/main.py up to the construction of the controller: the character
\* stands at Point(300, 300) and no controller exists yet.
InitCommon ==
    /\ kind = "none"
    /\ controls = ControllerInit
    /\ location = Point(StartX * UnitsPerOne, StartY * UnitsPerOne)
    /\ error = "none"
    /\ last_op = "start"
    /\ read = NoRead
    /\ moves = 0
    /\ direct = 0
    /\ ExtraInit

\* Callers use the controller, the Controls and the Mover in any order.
Init == InitCommon /\ pc = "free"

\* The host loop of spec section 5: survey, then move, every tick.
LoopInit == InitCommon /\ pc = "survey"

Running == error = "none"

\* current_controller = controller.PygameKeyboardController(control_settings)
NewKeyboard ==
    /\ Running /\ kind = "none"
    /\ kind' = "keyboard"
    /\ controls' = KeyboardInit
    /\ last_op' = "new_keyboard"
    /\ UNCHANGED <<location, error, read, pc, moves, direct>>
    /\ UNCHANGED extra

\* PygameGamepadController(): [Joystick(x) for x in range(get_count())][0]
\* raises IndexError when no joystick is enumerated.
NewGamepad ==
    /\ Running /\ kind = "none"
    /\ \E joystick_count \in JoystickCounts :
        IF joystick_count = 0
        THEN /\ error' = "IndexError"
             /\ UNCHANGED <<kind, controls>>
        ELSE /\ kind' = "gamepad"
             /\ controls' = GamepadInit
             /\ UNCHANGED error
    /\ last_op' = "new_gamepad"
    /\ UNCHANGED <<location, read, pc, moves, direct>>
    /\ UNCHANGED extra

AfterSurvey(r) ==
    /\ last_op' = "survey"
    /\ pc' = IF pc = "free" THEN "free" ELSE "move"
    /\ read' = IF pc = "free" THEN read ELSE r

\* Fault variant: the survey moves the character itself, as the legacy
\* Character.move did when it read the keys.
KeyboardSurvey_moves ==
    /\ Running /\ kind = "keyboard" /\ pc \in {"free", "survey"}
    /\ \E keys \in KeyTables :
        /\ controls' = Keyboard_conduct_survey_of_controls(controls, keys)
        /\ AfterSurvey(Read(keys, 0, 0))
    /\ location' = move_character(controls', location)
    /\ UNCHANGED <<kind, error, moves, direct>>
    /\ UNCHANGED extra

KeyboardSurvey ==
    /\ Running /\ kind = "keyboard" /\ pc \in {"free", "survey"}
    /\ \E keys \in KeyTables :
        /\ controls' = Keyboard_conduct_survey_of_controls(controls, keys)
        /\ AfterSurvey(Read(keys, 0, 0))
    /\ UNCHANGED <<kind, location, error, moves, direct>>
    /\ UNCHANGED extra

GamepadSurvey ==
    /\ Running /\ kind = "gamepad" /\ pc \in {"free", "survey"}
    /\ \E ax \in AxisReadings, ay \in AxisReadings :
        /\ controls' = Gamepad_conduct_survey_of_controls(controls, ax, ay)
        /\ AfterSurvey(Read(NoKeys, ax, ay))
    /\ UNCHANGED <<kind, location, error, moves, direct>>
    /\ UNCHANGED extra

\* mover.move_character(character): character.move_to(Point(...))
MoveCharacter ==
    /\ Running /\ kind # "none" /\ pc \in {"free", "move"}
    /\ moves < (IF pc = "free" THEN MaxMoves ELSE MaxTicks)
    /\ location' = move_character(controls, location)
    /\ moves' = moves + 1
    /\ last_op' = "move"
    /\ pc' = IF pc = "free" THEN "free" ELSE "survey"
    /\ UNCHANGED <<kind, controls, error, read, direct>>
    /\ UNCHANGED extra

DeactivateAll ==
    /\ Running /\ kind # "none" /\ pc = "free"
    /\ controls' = deactivate_all_controls(controls)
    /\ last_op' = "deactivate_all"
    /\ UNCHANGED <<kind, location, error, read, pc, moves, direct>>
    /\ UNCHANGED extra

\* A caller holding controller.move_* calls the Control directly.
ControlActivate ==
    /\ Running /\ kind # "none" /\ pc = "free"
    /\ direct < MaxDirect
    /\ \E d \in Dir, v \in ActivateValues :
        controls' = [controls EXCEPT ![d] = activate(@, v)]
    /\ direct' = direct + 1
    /\ last_op' = "activate"
    /\ UNCHANGED <<kind, location, error, read, pc, moves>>
    /\ UNCHANGED extra

ControlDeactivate ==
    /\ Running /\ kind # "none" /\ pc = "free"
    /\ direct < MaxDirect
    /\ \E d \in Dir :
        controls' = [controls EXCEPT ![d] = deactivate(@)]
    /\ direct' = direct + 1
    /\ last_op' = "deactivate"
    /\ UNCHANGED <<kind, location, error, read, pc, moves>>
    /\ UNCHANGED extra

\* Rebinding a keyboard Control to another key code.
ControlUpdateKeyNumber ==
    /\ Running /\ kind = "keyboard" /\ pc = "free"
    /\ direct < MaxDirect
    /\ \E d \in Dir, k \in KeyCodes :
        controls' = [controls EXCEPT ![d] = update_key_number(@, k)]
    /\ direct' = direct + 1
    /\ last_op' = "update_key_number"
    /\ UNCHANGED <<kind, location, error, read, pc, moves>>
    /\ UNCHANGED extra

Next ==
    \/ NewKeyboard
    \/ NewGamepad
    \/ KeyboardSurvey
    \/ GamepadSurvey
    \/ MoveCharacter
    \/ DeactivateAll
    \/ ControlActivate
    \/ ControlDeactivate
    \/ ControlUpdateKeyNumber

Spec == Init /\ [][Next]_vars

LoopNext ==
    \/ NewKeyboard
    \/ NewGamepad
    \/ KeyboardSurvey
    \/ GamepadSurvey
    \/ MoveCharacter

LoopSpec == LoopInit /\ [][LoopNext]_vars

TypeOK ==
    /\ kind \in {"none", "keyboard", "gamepad"}
    /\ \A d \in Dir : controls[d].activated \in BOOLEAN
    /\ error \in {"none", "IndexError"}
    /\ read \in [keys : KeyTables, ax : AxisReadings, ay : AxisReadings]
    /\ pc \in {"free", "survey", "move", "device", "point",
              "tick_survey", "tick_use", "tick_reset",
              "legacy_move", "new_survey", "new_move", "new_reset",
              "h_survey", "h_change", "h_reset", "h_done"}
    /\ frames \in 0..MaxSwitchTicks
    /\ h_index \in 0..(NControllers - 1)
    /\ ref \in 1..Len(heap)
    /\ moves \in 0..(IF pc = "free" THEN MaxMoves ELSE MaxTicks)
    /\ direct \in 0..MaxDirect

\* ------------------------------------------------------------------------
\* Scenario: a controller under a raw device state that does not change
\* ------------------------------------------------------------------------

\* Controls a caller installs through the move_* setters: a fresh Control
\* and one that is already activated.
InstalledControls == {Control(K_UP), activate(Control(K_LEFT), 2 * UnitsPerOne)}

\* A controller has been constructed; the device holds one state, the keys
\* of a keyboard or the stick position of a gamepad, for the whole run.
DeviceInit ==
    /\ \/ /\ kind = "keyboard"
          /\ controls = KeyboardInit
          /\ \E keys \in KeyTables : held = Read(keys, 0, 0)
       \/ /\ kind = "gamepad"
          /\ controls = GamepadInit
          /\ \E ax \in AxisReadings, ay \in AxisReadings : held = Read(NoKeys, ax, ay)
    /\ location = StartPoint
    /\ error = "none"
    /\ last_op = "start"
    /\ read = NoRead
    /\ pc = "device"
    /\ moves = 0
    /\ direct = 0
    /\ prev_op = "start"
    /\ heap = <<StartPoint>>
    /\ ref = 1
    /\ rect = RectStart
    /\ frames = 0
    /\ h_controls = HarnessInit
    /\ h_index = 0

\* What a device step leaves alone.
DeviceFrame(op) ==
    /\ prev_op' = last_op
    /\ last_op' = op
    /\ UNCHANGED <<kind, location, error, read, pc, moves, held>>
    /\ UNCHANGED <<heap, ref, rect, frames, h_controls, h_index>>

\* conduct_survey_of_controls of the constructed controller, reading the
\* held device state.
conduct_survey_of_controls(k, cs, device) ==
    IF k = "keyboard"
    THEN Keyboard_conduct_survey_of_controls(cs, device.keys)
    ELSE Gamepad_conduct_survey_of_controls(cs, device.ax, device.ay)

DeviceSurvey ==
    /\ pc = "device"
    /\ controls' = conduct_survey_of_controls(kind, controls, held)
    /\ DeviceFrame("survey")
    /\ UNCHANGED direct

DeviceDeactivateAll ==
    /\ pc = "device"
    /\ controls' = deactivate_all_controls(controls)
    /\ DeviceFrame("deactivate_all")
    /\ UNCHANGED direct

DeviceActivate ==
    /\ pc = "device" /\ direct < MaxDirect
    /\ \E d \in Dir, v \in ActivateValues :
        controls' = [controls EXCEPT ![d] = activate(@, v)]
    /\ direct' = direct + 1
    /\ DeviceFrame("activate")

DeviceUpdateKeyNumber ==
    /\ pc = "device" /\ direct < MaxDirect
    /\ kind = "keyboard"
    /\ \E d \in Dir, k \in KeyCodes :
        controls' = [controls EXCEPT ![d] = update_key_number(@, k)]
    /\ direct' = direct + 1
    /\ DeviceFrame("update_key_number")

\* controller.move_up = Control(...), and the three other setters
DeviceSetControl ==
    /\ pc = "device" /\ direct < MaxDirect
    /\ \E d \in Dir, c \in InstalledControls :
        controls' = [controls EXCEPT ![d] = c]
    /\ direct' = direct + 1
    /\ DeviceFrame("set_control")

DeviceNext ==
    \/ DeviceSurvey
    \/ DeviceDeactivateAll
    \/ DeviceActivate
    \/ DeviceUpdateKeyNumber
    \/ DeviceSetControl

DeviceSpec == DeviceInit /\ [][DeviceNext]_vars

\* ------------------------------------------------------------------------
\* Scenario: the character's location as a Point object
\* ------------------------------------------------------------------------

\* Fault variant: the coordinates are written into the newest Point, the one
\* the character already holds, and no object is created.
new_Point_in_place(h, p) == [h EXCEPT ![Len(h)] = p]

\* model.Point(x=..., y=...) creates an object: it joins the heap; the
\* objects created before keep their x and y.
new_Point(h, p) == Append(h, p)

\* A controller has been constructed and the character holds the Point it
\* was built with; a caller may keep a reference to any Point of the heap.
PointInit ==
    /\ \/ kind = "keyboard" /\ controls = KeyboardInit
       \/ kind = "gamepad" /\ controls = GamepadInit
    /\ location = StartPoint
    /\ error = "none"
    /\ last_op = "start"
    /\ read = NoRead
    /\ pc = "point"
    /\ moves = 0
    /\ direct = 0
    /\ ExtraInit

PointSurvey ==
    /\ pc = "point"
    /\ \E keys \in KeyTables, ax \in AxisReadings, ay \in AxisReadings :
        controls' = conduct_survey_of_controls(kind, controls, Read(keys, ax, ay))
    /\ last_op' = "survey"
    /\ UNCHANGED <<kind, location, error, read, pc, moves, direct>>
    /\ UNCHANGED extra

\* Mover.move_character: reads character.location, builds a Point, and
\* Character.move_to makes _location refer to it.
PointMove ==
    /\ pc = "point"
    /\ moves < MaxTicks
    /\ heap' = new_Point(heap, move_character(controls, heap[ref]))
    /\ ref' = Len(heap')
    /\ location' = heap'[ref']
    /\ moves' = moves + 1
    /\ last_op' = "move"
    /\ UNCHANGED <<kind, controls, error, read, pc, direct>>
    /\ UNCHANGED <<held, prev_op, rect, frames, h_controls, h_index>>

PointNext ==
    \/ PointSurvey
    \/ PointMove

PointSpec == PointInit /\ [][PointNext]_vars

\* ------------------------------------------------------------------------
\* Scenario: the loop discipline of the test harness on one controller
\* ------------------------------------------------------------------------

\* A controller has been constructed; the loop is about to start.
TickInit ==
    /\ \/ kind = "keyboard" /\ controls = KeyboardInit
       \/ kind = "gamepad" /\ controls = GamepadInit
    /\ location = StartPoint
    /\ error = "none"
    /\ last_op = "start"
    /\ read = NoRead
    /\ pc = "tick_survey"
    /\ moves = 0
    /\ direct = 0
    /\ ExtraInit

\* self._controller.conduct_survey_of_controls(events)
TickSurvey ==
    /\ pc = "tick_survey"
    /\ moves < MaxTicks
    /\ \E r \in [keys : KeyTables, ax : AxisReadings, ay : AxisReadings] :
        /\ kind = "keyboard" => r.ax = 0 /\ r.ay = 0
        /\ kind = "gamepad" => r.keys = NoKeys
        /\ read' = r
        /\ controls' = conduct_survey_of_controls(kind, controls, r)
    /\ last_op' = "survey"
    /\ pc' = "tick_use"
    /\ UNCHANGED <<kind, location, error, moves, direct>>
    /\ UNCHANGED extra

\* The Controls are read (quit, accept, the labels); nothing is written.
TickUse ==
    /\ pc = "tick_use"
    /\ last_op' = "use"
    /\ pc' = "tick_reset"
    /\ UNCHANGED <<kind, controls, location, error, read, moves, direct>>
    /\ UNCHANGED extra

\* Fault variant: the loop goes to the next tick without the reset.
TickReset_skipped ==
    /\ pc = "tick_reset"
    /\ last_op' = "deactivate_all"
    /\ pc' = "tick_survey"
    /\ moves' = moves + 1
    /\ UNCHANGED <<kind, controls, location, error, read, direct>>
    /\ UNCHANGED extra

\* self._controller.deactivate_all_controls(), then the next tick
TickReset ==
    /\ pc = "tick_reset"
    /\ controls' = deactivate_all_controls(controls)
    /\ last_op' = "deactivate_all"
    /\ pc' = "tick_survey"
    /\ moves' = moves + 1
    /\ UNCHANGED <<kind, location, error, read, direct>>
    /\ UNCHANGED extra

TickNext ==
    \/ TickSurvey
    \/ TickUse
    \/ TickReset

TickSpec == TickInit /\ [][TickNext]_vars

\* ------------------------------------------------------------------------
\* Scenario: the legacy Character.move beside the keyboard controller
\* ------------------------------------------------------------------------

\* Fault variant: opposite keys held together cancel on the horizontal axis.
Character_move_cancels(r, keys) ==
    IF keys[K_RIGHT] /\ keys[K_LEFT] THEN
        IF keys[K_UP] THEN Point(r.x, r.y - 1)
        ELSE IF keys[K_DOWN] THEN Point(r.x, r.y + 1)
        ELSE r
    ELSE IF keys[K_RIGHT] /\ keys[K_UP] THEN Point(r.x + 1, r.y - 1)
    ELSE IF keys[K_RIGHT] /\ keys[K_DOWN] THEN Point(r.x + 1, r.y + 1)
    ELSE IF keys[K_LEFT] /\ keys[K_UP] THEN Point(r.x - 1, r.y - 1)
    ELSE IF keys[K_LEFT] /\ keys[K_DOWN] THEN Point(r.x - 1, r.y + 1)
    ELSE IF keys[K_RIGHT] THEN Point(r.x + 1, r.y)
    ELSE IF keys[K_LEFT] THEN Point(r.x - 1, r.y)
    ELSE IF keys[K_UP] THEN Point(r.x, r.y - 1)
    ELSE IF keys[K_DOWN] THEN Point(r.x, r.y + 1)
    ELSE r

\* Character.move of src/main.py: the if / elif chain over the key table,
\* applied to rect (x, y), in whole pixels.
Character_move(r, keys) ==
    IF keys[K_RIGHT] /\ keys[K_UP] THEN Point(r.x + 1, r.y - 1)
    ELSE IF keys[K_RIGHT] /\ keys[K_DOWN] THEN Point(r.x + 1, r.y + 1)
    ELSE IF keys[K_LEFT] /\ keys[K_UP] THEN Point(r.x - 1, r.y - 1)
    ELSE IF keys[K_LEFT] /\ keys[K_DOWN] THEN Point(r.x - 1, r.y + 1)
    ELSE IF keys[K_RIGHT] THEN Point(r.x + 1, r.y)
    ELSE IF keys[K_LEFT] THEN Point(r.x - 1, r.y)
    ELSE IF keys[K_UP] THEN Point(r.x, r.y - 1)
    ELSE IF keys[K_DOWN] THEN Point(r.x, r.y + 1)
    ELSE r

\* Both programs have been started: the legacy Character is centred on
\* (300, 300); the new character stands at Point(300, 300) with a keyboard
\* controller whose Controls are all deactivated.
LegacyInit ==
    /\ kind = "keyboard"
    /\ controls = KeyboardInit
    /\ location = StartPoint
    /\ error = "none"
    /\ last_op = "start"
    /\ read = NoRead
    /\ pc = "legacy_move"
    /\ moves = 0
    /\ direct = 0
    /\ ExtraInit

\* One frame of Window.show: Character.move reads the key table, which both
\* programs see for the rest of the frame.
LegacyMove ==
    /\ pc = "legacy_move"
    /\ frames < MaxTicks
    /\ \E keys \in KeyTables :
        /\ held' = Read(keys, 0, 0)
        /\ rect' = Character_move(rect, keys)
    /\ frames' = frames + 1
    /\ last_op' = "legacy_move"
    /\ pc' = "new_survey"
    /\ UNCHANGED core_but_op
    /\ UNCHANGED <<prev_op, heap, ref, h_controls, h_index>>

\* current_controller.conduct_survey_of_controls() under the same keys
LegacySurvey ==
    /\ pc = "new_survey"
    /\ controls' = Keyboard_conduct_survey_of_controls(controls, held.keys)
    /\ last_op' = "survey"
    /\ pc' = "new_move"
    /\ UNCHANGED <<kind, location, error, read, moves, direct>>
    /\ UNCHANGED extra

\* mover.move_character(character)
LegacyMoveCharacter ==
    /\ pc = "new_move"
    /\ location' = move_character(controls, location)
    /\ moves' = moves + 1
    /\ last_op' = "move"
    /\ pc' = "new_reset"
    /\ UNCHANGED <<kind, controls, error, read, direct>>
    /\ UNCHANGED extra

\* The controller is reset before the next frame.
LegacyReset ==
    /\ pc = "new_reset"
    /\ controls' = deactivate_all_controls(controls)
    /\ last_op' = "deactivate_all"
    /\ pc' = "legacy_move"
    /\ UNCHANGED <<kind, location, error, read, moves, direct>>
    /\ UNCHANGED extra

LegacyNext ==
    \/ LegacyMove
    \/ LegacySurvey
    \/ LegacyMoveCharacter
    \/ LegacyReset

LegacySpec == LegacyInit /\ [][LegacyNext]_vars

\* ------------------------------------------------------------------------
\* Scenario: the controller-switching loop of the test harness
\* ------------------------------------------------------------------------

\* What one survey of a listed controller may find pressed.
HarnessReports ==
    {{}, {"move_right"}, {"accept"}, {"move_up", "accept"}, {"quit"}}

\* conduct_survey_of_controls(events) of a listed controller: it activates
\* the Controls whose input it sees, as the surveys of controller.py do.
harness_survey(cs, reported) ==
    [c \in HControls |->
        IF c \in reported THEN activate(cs[c], 1 * UnitsPerOne) ELSE cs[c]]

\* deactivate_all_controls() of a listed controller: every Control it has.
harness_deactivate_all(cs) == [c \in HControls |-> deactivate(cs[c])]

\* Test.__init__: four controllers, the first one current.
SwitchInit ==
    /\ kind = "none"
    /\ controls = ControllerInit
    /\ location = StartPoint
    /\ error = "none"
    /\ last_op = "start"
    /\ read = NoRead
    /\ pc = "h_survey"
    /\ moves = 0
    /\ direct = 0
    /\ ExtraInit

\* events = pygame.event.get()
\* self._controller.conduct_survey_of_controls(events)
\* if self._controller.quit.activated: return
SwitchSurvey ==
    /\ pc = "h_survey"
    /\ frames < MaxSwitchTicks
    /\ \E reported \in HarnessReports :
        h_controls' = [h_controls EXCEPT ![h_index] = harness_survey(@, reported)]
    /\ last_op' = "survey"
    /\ pc' = IF h_controls'[h_index]["quit"].activated THEN "h_done" ELSE "h_change"
    /\ UNCHANGED core_but_op
    /\ UNCHANGED <<held, prev_op, heap, ref, rect, frames, h_index>>

\* Test._change_controller
SwitchChange ==
    /\ pc = "h_change"
    /\ h_index' = IF h_controls[h_index]["accept"].activated
                  THEN IF h_index + 1 = NControllers THEN 0 ELSE h_index + 1
                  ELSE h_index
    /\ last_op' = "change_controller"
    /\ pc' = "h_reset"
    /\ UNCHANGED core_but_op
    /\ UNCHANGED <<held, prev_op, heap, ref, rect, frames, h_controls>>

\* self._controller.deactivate_all_controls(): self._controller is by now
\* the controller _change_controller selected.
SwitchReset ==
    /\ pc = "h_reset"
    /\ h_controls' = [h_controls EXCEPT ![h_index] = harness_deactivate_all(@)]
    /\ frames' = frames + 1
    /\ last_op' = "deactivate_all"
    /\ pc' = "h_survey"
    /\ UNCHANGED core_but_op
    /\ UNCHANGED <<held, prev_op, heap, ref, rect, h_index>>

SwitchNext ==
    \/ SwitchSurvey
    \/ SwitchChange
    \/ SwitchReset

SwitchSpec == SwitchInit /\ [][SwitchNext]_vars

\* ------------------------------------------------------------------------
\* Properties
\* ------------------------------------------------------------------------

Deactivated(c) == ~c.activated /\ c.value = 0

AllDeactivated == \A d \in Dir : Deactivated(controls[d])

\* The step just taken is a call of Mover.move_character.
MoveStep == moves' = moves + 1

\* C1: after PygameKeyboardController.conduct_survey_of_controls every
\* Control whose bound key the table reports pressed is activated with
\* value 1, and every Control whose bound key is not pressed is deactivated
\* (activated = False, value = 0), whatever the Controls held before.
\* Stated at the point of the host loop right after the survey.
C1_KeyboardSurveyDeterminesActivation ==
    (pc = "move" /\ kind = "keyboard") =>
        \A d \in Dir :
            IF read.keys[controls[d].key_number]
            THEN controls[d].activated /\ controls[d].value = 1 * UnitsPerOne
            ELSE Deactivated(controls[d])

\* The device state read in this tick shows no input: no bound key is
\* pressed, or both axes of the stick are inside the dead zone.
NothingPressed ==
    IF kind = "keyboard"
    THEN \A d \in Dir : ~read.keys[controls[d].key_number]
    ELSE Abs(read.ax) <= dead_zone /\ Abs(read.ay) <= dead_zone

\* C2: in the host loop (survey, then move, every tick) a tick whose survey
\* read no input leaves the character's location as it was before the tick,
\* even if a direction was pressed on an earlier tick.
C2_IdleTickKeepsLocation ==
    [][(pc = "move" /\ MoveStep /\ NothingPressed) => location' = location]_vars

\* C3: after PygameGamepadController.conduct_survey_of_controls, an axis
\* whose reading v has abs(v) <= dead zone has both its Controls
\* deactivated (left and right for the horizontal axis, up and down for the
\* vertical one), whatever the Controls held before.
C3_DeadZoneDeactivatesAxis ==
    (pc = "move" /\ kind = "gamepad") =>
        /\ Abs(read.ax) <= dead_zone =>
               Deactivated(controls["move_right"]) /\ Deactivated(controls["move_left"])
        /\ Abs(read.ay) <= dead_zone =>
               Deactivated(controls["move_up"]) /\ Deactivated(controls["move_down"])

\* C5: after a gamepad survey whose axis reading is outside the dead zone
\* exactly one of the two Controls of that axis is activated: a survey that
\* reads "down" after one that read "up" leaves "up" deactivated.
ExactlyOne(a, b) == controls[a].activated # controls[b].activated

C5_OppositeSideCleared ==
    (pc = "move" /\ kind = "gamepad") =>
        /\ Abs(read.ax) > dead_zone => ExactlyOne("move_right", "move_left")
        /\ Abs(read.ay) > dead_zone => ExactlyOne("move_up", "move_down")

\* C6: when the device is unavailable (no joystick is enumerated, so the
\* attempt to build the gamepad controller yields none) nothing is raised
\* and all four Controls are deactivated.
C6_UnavailableDeviceDoesNotRaise ==
    (last_op = "new_gamepad" /\ kind # "gamepad") =>
        (error = "none" /\ AllDeactivated)

\* The step just taken is a gamepad survey that read (ax, ay).
GamepadSurveyStep(ax, ay) ==
    /\ kind = "gamepad"
    /\ last_op' = "survey"
    /\ controls' = Gamepad_conduct_survey_of_controls(controls, ax, ay)

\* The Control the sign of a reading selects on each axis.
SelectedX(v) == IF v > 0 THEN "move_right" ELSE "move_left"

SelectedY(v) == IF v < 0 THEN "move_up" ELSE "move_down"

C7_MoverPriority ==
    [][MoveStep =>
          /\ (controls["move_right"].activated /\ controls["move_left"].activated) =>
                 location'.x = location.x + controls["move_right"].value + MoverSpeed
          /\ (controls["move_up"].activated /\ controls["move_down"].activated) =>
                 location'.y = location.y - Abs(controls["move_up"].value) - MoverSpeed]_vars

\* move_character has run with all four Controls activated: right and up won.
C7_Witness ==
    /\ last_op = "move"
    /\ \A d \in Dir : controls[d].activated
    /\ location = Point(StartX * UnitsPerOne + controls["move_right"].value,
                        StartY * UnitsPerOne - Abs(controls["move_up"].value))

\* C8: Mover no-op law.  If none of the four Controls is activated, the
\* location after move_character equals the location before it.
C8_MoverNoOp ==
    [][(MoveStep /\ \A d \in Dir : ~controls[d].activated) =>
          location' = location]_vars

\* move_character has run with no Control activated.
C8_Witness ==
    /\ last_op = "move"
    /\ \A d \in Dir : ~controls[d].activated
    /\ location = Point(StartX * UnitsPerOne, StartY * UnitsPerOne)

\* pygame.key.get_pressed() with the right arrow held and nothing else.
OnlyRightKey == [k \in KeyCodes |-> k = K_RIGHT]

\* The displacement of one move_character step, axis by axis: one active
\* Control of the axis displaces by its value, none keeps the coordinate.
C9_Step ==
    MoveStep =>
        /\ (controls["move_right"].activated /\ ~controls["move_left"].activated) =>
               location'.x = location.x + controls["move_right"].value
        /\ (controls["move_left"].activated /\ ~controls["move_right"].activated) =>
               location'.x = location.x - Abs(controls["move_left"].value)
        /\ (~controls["move_left"].activated /\ ~controls["move_right"].activated) =>
               location'.x = location.x
        /\ (controls["move_up"].activated /\ ~controls["move_down"].activated) =>
               location'.y = location.y - Abs(controls["move_up"].value)
        /\ (controls["move_down"].activated /\ ~controls["move_up"].activated) =>
               location'.y = location.y + controls["move_down"].value
        /\ (~controls["move_up"].activated /\ ~controls["move_down"].activated) =>
               location'.y = location.y

\* The first tick of the host loop on a fresh keyboard controller has read
\* the right key alone and moved the character.
C9_FirstTickRightOnly ==
    /\ kind = "keyboard" /\ pc = "survey" /\ moves = 1
    /\ read.keys = OnlyRightKey

\* C9: with speed 0 and one direction of an axis active, right gives
\* x + right.value, left gives x - abs(left.value), up gives
\* y - abs(up.value), down gives y + down.value, and an axis with neither
\* Control active keeps its coordinate; a keyboard with only the right key
\* pressed, surveyed once from a reset state, moves the character from
\* x = 300 to x = 301 with y unchanged.
C9_SingleDirectionDisplacement ==
    /\ [](C9_FirstTickRightOnly =>
              location = Point((StartX + 1) * UnitsPerOne, StartY * UnitsPerOne))
    /\ [][C9_Step]_vars

C9_Witness ==
    /\ C9_FirstTickRightOnly
    /\ controls["move_right"].activated /\ controls["move_right"].value = 1 * UnitsPerOne
    /\ location.x = (StartX + 1) * UnitsPerOne

\* C10: every Control with activated = False has value = 0, in every state
\* reachable by Control.activate, Control.deactivate, update_key_number,
\* the surveys and deactivate_all_controls.
C10_InactiveHasZeroValue ==
    \A d \in Dir : ~controls[d].activated => controls[d].value = 0

\* The character has been moved by an activated Control, and
\* deactivate_all_controls has then reset the Controls.
C10_Witness ==
    /\ last_op = "deactivate_all"
    /\ location # Point(StartX * UnitsPerOne, StartY * UnitsPerOne)
    /\ AllDeactivated

\* C11: survey idempotence.  Under a device state that does not change, a
\* second conduct_survey_of_controls right after a first leaves the
\* activated flag and the value of all four Controls as the first call left
\* them, whatever the Controls held before the first call.
C11_SurveyIdempotent ==
    [][(last_op = "survey" /\ last_op' = "survey") => controls' = controls]_vars

\* Two surveys have run in a row on Controls a caller had touched before,
\* and a Control is activated.
C11_Witness ==
    /\ last_op = "survey" /\ prev_op = "survey"
    /\ direct = 1
    /\ \E d \in Dir : controls[d].activated

\* The Controls of the constructed kind of controller as its constructor
\* leaves them.
FreshControls == IF kind = "keyboard" THEN KeyboardInit ELSE GamepadInit

\* The same, bound to the keys the Controls are bound to now.
FreshControlsBoundAsNow == [d \in Dir |-> Control(controls[d].key_number)]

\* The activated flags and values of two sets of Controls agree.
SameActivation(a, b) ==
    \A d \in Dir : a[d].activated = b[d].activated /\ a[d].value = b[d].value

\* deactivate_all_controls and then one survey have just run.
ResetThenSurveyed == last_op = "survey" /\ prev_op = "deactivate_all"

\* C12 as stated: from any reachable controller state,
\* deactivate_all_controls followed by one survey under a fixed device
\* state yields the activated flags and values of a freshly constructed
\* controller surveyed once under that device state.
C12_ResetRoundTrip ==
    ResetThenSurveyed =>
        SameActivation(controls,
                       conduct_survey_of_controls(kind, FreshControls, held))

\* C12 amended: ... of a freshly constructed controller, bound to the same
\* key numbers, surveyed once under that device state.
C12_ResetRoundTripSameBindings ==
    ResetThenSurveyed =>
        SameActivation(controls,
                       conduct_survey_of_controls(kind, FreshControlsBoundAsNow, held))

\* The round trip has run on a keyboard controller one of whose Controls had
\* been rebound or replaced, and the survey has activated a Control.
C12_Witness ==
    /\ ResetThenSurveyed
    /\ \E d \in Dir : controls[d].key_number # FreshControls[d].key_number
    /\ \E d \in Dir : controls[d].activated

\* C13: after deactivate_all_controls, from any prior state, each of the
\* four Controls, one installed through a move_* setter included, has
\* activated = False and value = 0 and is bound to the key number it was
\* bound to before the call.
C13_DeactivateAllResets ==
    [][last_op' = "deactivate_all" =>
          \A d \in Dir :
              /\ Deactivated(controls'[d])
              /\ controls'[d].key_number = controls[d].key_number]_vars

\* An activated Control bound to K_LEFT was installed as move_up through the
\* setter, and deactivate_all_controls has then reset it.
C13_Witness ==
    /\ last_op = "deactivate_all" /\ prev_op = "set_control"
    /\ controls["move_up"].key_number = K_LEFT
    /\ AllDeactivated

\* C14: conduct_survey_of_controls and deactivate_all_controls leave the
\* character's location unchanged; across any sequence of operations the
\* location changes only in a Mover.move_character step.
C14_OnlyMoverMovesCharacter ==
    [][/\ last_op' \in {"survey", "deactivate_all"} => location' = location
       /\ location' # location => MoveStep]_vars

\* A survey has activated a Control, no move_character has run, and the
\* character still stands where it started.
C14_Witness ==
    /\ last_op = "survey" /\ moves = 0
    /\ \E d \in Dir : controls[d].activated
    /\ location = StartPoint

\* C15: move_character does not change the Point object that was the
\* character's location before the call (nor any other Point a caller may
\* hold): it installs a new Point, holding the coordinates Mover computed,
\* and leaves the flags, values and key bindings of all four Controls as
\* they were.
C15_MoverInstallsFreshPoint ==
    [][MoveStep =>
          /\ \A i \in 1..Len(heap) : heap'[i] = heap[i]
          /\ ref' \notin 1..Len(heap)
          /\ heap'[ref'] = move_character(controls, heap[ref])
          /\ controls' = controls]_vars

\* The character has been moved away from its first Point, which still
\* holds (300, 300).
C15_Witness ==
    /\ last_op = "move"
    /\ ref = 2
    /\ heap[1] = StartPoint
    /\ heap[ref] # StartPoint
    /\ \E d \in Dir : controls[d].activated

\* The directions the device reports in the state r: the arrow keys that
\* are pressed, or the side of each stick axis whose reading lies beyond
\* the dead zone.
Reported(k, r) ==
    IF k = "keyboard"
    THEN {d \in Dir :
            \/ d = "move_right" /\ r.keys[K_RIGHT]
            \/ d = "move_left" /\ r.keys[K_LEFT]
            \/ d = "move_up" /\ r.keys[K_UP]
            \/ d = "move_down" /\ r.keys[K_DOWN]}
    ELSE {d \in Dir :
            \/ d = "move_right" /\ r.ax > dead_zone
            \/ d = "move_left" /\ r.ax < -dead_zone
            \/ d = "move_down" /\ r.ay > dead_zone
            \/ d = "move_up" /\ r.ay < -dead_zone}

\* C16: under the loop discipline survey, use, deactivate_all_controls on
\* one controller, whenever the Controls are used the activated ones are
\* exactly the directions the device reports in that tick, whatever the
\* earlier ticks read.
C16_ActivatedIsReportedAtUse ==
    pc = "tick_use" => {d \in Dir : controls[d].activated} = Reported(kind, read)

\* A later tick is at its point of use, the stick is pushed left and only
\* move_left is activated.
C16_Witness ==
    /\ pc = "tick_use"
    /\ moves >= 1
    /\ kind = "gamepad"
    /\ Reported(kind, read) = {"move_left"}
    /\ controls["move_left"].activated
    /\ ~controls["move_right"].activated

\* C17: for every combination of pressed arrow keys, in every frame, the
\* legacy Character.move and the keyboard survey on a reset controller
\* followed by Mover.move_character displace their characters by the same
\* (dx, dy): after each frame both stand equally far from where they
\* started (the legacy rect in pixels, the Point in hundredths).
C17_LegacyEquivalence ==
    pc \in {"new_reset", "legacy_move"} =>
        /\ location.x - StartPoint.x = (rect.x - RectStart.x) * UnitsPerOne
        /\ location.y - StartPoint.y = (rect.y - RectStart.y) * UnitsPerOne

\* Left and right and up and down were all held in a second frame, and both
\* characters have moved.
C17_Witness ==
    /\ pc = "new_reset"
    /\ frames = 2
    /\ \A k \in KeyCodes : held.keys[k]
    /\ rect # RectStart
    /\ location # StartPoint

\* C18: in the controller-switching loop, when a tick has ended no listed
\* controller has an activated Control, also after a tick in which accept
\* made the next controller of the list the current one.
C18_NoStaleControlAfterTick ==
    pc = "h_survey" =>
        \A i \in 0..(NControllers - 1) : \A c \in HControls :
            ~h_controls[i][c].activated

=============================================================================
